---- MODULE Spec2Model ----
(***************************************************************************)
(* BookHive LMS: the circulation state machine behind the LibrarySystem    *)
(* facade (src/bookhive/api.py): copies, loans, the reservation queue and  *)
(* overdue fines.  Every facade call runs to completion before the next    *)
(* one starts (single-threaded, synchronous code), so each call is one     *)
(* action.  Identifiers come from _new_id (a fresh random suffix per       *)
(* call); they are modelled as the position of the record in its           *)
(* repository, which is also the dict's insertion (= iteration) order.     *)
(* Timestamps are integer ticks; datetime.utcnow() reads the variable      *)
(* clock, which only moves forward.                                        *)
(***************************************************************************)
EXTENDS Integers, Sequences, FiniteSets, TLC

\* ------------------------------------------------------------------ bounds
MaxUsers == 2
MaxBooks == 1
MaxCopies == 2
MaxLoans == 2
MaxReservations == 2
MaxInflight == 2
\* resolution of the clock: ticks per calendar day
TicksPerDay == 2

\* ------------------------------------------------------- program constants
default_loan_days == 14
borrow_limit == 5
DailyRateCents == 50
BlockThresholdCents == 1000

\* Python's None (for Optional ids and timestamps)
None == -1
\* an id string that names no record of any repository
UnknownId == 0

LoanTicks == default_loan_days * TicksPerDay

\* the instants at which the wall clock is read under Spec: the start, and an
\* instant late enough for the fine on a loan made at the start to exceed the
\* blocking threshold
LateDays == (BlockThresholdCents \div DailyRateCents) + 1
Instants == {0, LoanTicks + LateDays * TicksPerDay}

VARIABLES
    clock,          \* what datetime.utcnow() returns
    users,          \* UserRepo._users: sequence of [active]
    nbooks,         \* BookRepo._books: books 1..nbooks exist
    copies,         \* BookRepo._copies: sequence of [book_id, status]
    loans,          \* LoanRepo._loans
    reservations,   \* ReservationRepo._reservations
    fines,          \* FineRepo._fines
    last,           \* the last call: operation, arguments, return value, printed line
    serialized,     \* calls run one at a time, each to completion (as api.py runs them)
    inflight        \* checkouts that have read the available copies and not yet written

vars == <<clock, users, nbooks, copies, loans, reservations, fines, last,
          serialized, inflight>>
repos == <<users, nbooks, copies, loans, reservations, fines>>
calls == <<serialized, inflight>>

\* ------------------------------------------------------------------ domain
\* datetime.date(): the calendar day of an instant
date(t) == t \div TicksPerDay

can_borrow_always(user) == TRUE

\* User.can_borrow: every Role member is in the allowed tuple, so only the
\* active flag decides
can_borrow(user) == user.active

is_overdue_from_due(loan, now) == loan.returned_at = None /\ now >= loan.due_at

\* Loan.is_overdue
is_overdue(loan, now) == loan.returned_at = None /\ now > loan.due_at

is_paid_never(fine) == FALSE

\* Fine.is_paid
is_paid(fine) == fine.paid_at # None

\* ------------------------------------------------------------ repositories
UserIds == 1..Len(users)
BookIds == 1..nbooks
CopyIds == 1..Len(copies)
LoanIds == 1..Len(loans)
ReservationIds == 1..Len(reservations)
FineIds == 1..Len(fines)

\* the ids of `ids` (a set of positions) in dict iteration order
RECURSIVE InOrder(_, _)
InOrder(ids, n) ==
    IF n = 0 THEN <<>>
    ELSE LET rest == InOrder(ids, n - 1)
         IN  IF n \in ids THEN Append(rest, n) ELSE rest

\* BookRepo.list_copies_for_book
list_copies_for_book(book_id) ==
    InOrder({c \in CopyIds : copies[c].book_id = book_id}, Len(copies))

list_any_copy_ids(book_id) == list_copies_for_book(book_id)

\* BookRepo.list_available_copy_ids
list_available_copy_ids(book_id) ==
    SelectSeq(list_copies_for_book(book_id),
              LAMBDA c : copies[c].status = "AVAILABLE")

\* LoanRepo.list_active_by_copy
list_active_by_copy(copy_id) ==
    {l \in LoanIds : loans[l].copy_id = copy_id /\ loans[l].returned_at = None}

\* sorted(items, key=placed_at): a stable insertion sort
RECURSIVE InsertBeforeTies(_, _)
InsertBeforeTies(s, r) ==
    IF s = <<>> THEN <<r>>
    ELSE IF reservations[s[Len(s)]].placed_at < reservations[r].placed_at
         THEN Append(s, r)
         ELSE Append(InsertBeforeTies(SubSeq(s, 1, Len(s) - 1), r), s[Len(s)])

RECURSIVE InsertByPlacedAt(_, _)
InsertByPlacedAt(s, r) ==
    IF s = <<>> THEN <<r>>
    ELSE IF reservations[s[Len(s)]].placed_at <= reservations[r].placed_at
         THEN Append(s, r)
         ELSE Append(InsertByPlacedAt(SubSeq(s, 1, Len(s) - 1), r), s[Len(s)])

RECURSIVE sorted_by_placed_at(_)
sorted_by_placed_at(items) ==
    IF items = <<>> THEN <<>>
    ELSE InsertByPlacedAt(sorted_by_placed_at(SubSeq(items, 1, Len(items) - 1)),
                          items[Len(items)])

\* ReservationRepo.list_active_for_book
list_active_for_book(book_id) ==
    sorted_by_placed_at(
        InOrder({r \in ReservationIds : reservations[r].book_id = book_id
                                        /\ reservations[r].status = "ACTIVE"},
                Len(reservations)))

list_by_user_paid_or_not(user_id) == {f \in FineIds : fines[f].user_id = user_id}

list_unpaid_of_anyone(user_id) == {f \in FineIds : ~is_paid(fines[f])}

\* FineRepo.list_unpaid_by_user
list_unpaid_by_user(user_id) ==
    {f \in FineIds : fines[f].user_id = user_id /\ ~is_paid(fines[f])}

RECURSIVE SumCents(_)
SumCents(fs) ==
    IF fs = {} THEN 0
    ELSE LET f == CHOOSE x \in fs : TRUE
         IN  fines[f].amount_cents + SumCents(fs \ {f})

\* FineRepo.total_unpaid_cents
total_unpaid_cents(user_id) == SumCents(list_unpaid_by_user(user_id))

\* ---------------------------------------------------------------- services
Call(op, user, book, loan, ret, msg) ==
    [op |-> op, user |-> user, book |-> book, loan |-> loan, ret |-> ret, msg |-> msg]

Init ==
    /\ clock = 0
    /\ users = <<>>
    /\ nbooks = 0
    /\ copies = <<>>
    /\ loans = <<>>
    /\ reservations = <<>>
    /\ fines = <<>>
    /\ last = Call("init", None, None, None, None, <<>>)
    /\ serialized = TRUE
    /\ inflight = <<>>

\* time passes between two calls
Tick(t) ==
    /\ t > clock
    /\ clock' = t
    /\ last' = Call("tick", None, None, None, None, <<>>)
    /\ UNCHANGED <<repos, calls>>

\* LibrarySystem.create_user -> UserService.register_user
create_user ==
    /\ users' = Append(users, [active |-> TRUE])
    /\ last' = Call("create_user", None, None, None, Len(users) + 1, <<>>)
    /\ UNCHANGED <<clock, nbooks, copies, loans, reservations, fines, calls>>

add_book_one_more(n) ==
    /\ nbooks' = nbooks + 1
    /\ copies' = copies \o [i \in 1..(n + 1) |-> [book_id |-> nbooks + 1, status |-> "AVAILABLE"]]
    /\ last' = Call("add_book", None, None, None, nbooks + 1, <<>>)
    /\ UNCHANGED <<clock, users, loans, reservations, fines, calls>>

\* LibrarySystem.add_book -> CatalogService.add_book_with_copies
add_book(n) ==
    /\ nbooks' = nbooks + 1
    /\ copies' = copies \o [i \in 1..n |-> [book_id |-> nbooks + 1, status |-> "AVAILABLE"]]
    /\ last' = Call("add_book", None, None, None, nbooks + 1, <<>>)
    /\ UNCHANGED <<clock, users, loans, reservations, fines, calls>>

\* the reservation loop of checkout_first_available: the first entry of the
\* queue snapshot that belongs to the user and is still ACTIVE is fulfilled
RECURSIVE first_of_user(_, _)
first_of_user(queue, user_id) ==
    IF queue = <<>> THEN None
    ELSE IF reservations[Head(queue)].user_id = user_id
            /\ reservations[Head(queue)].status = "ACTIVE"
         THEN Head(queue)
         ELSE first_of_user(Tail(queue), user_id)

fulfil_all(queue, user_id) ==
    [r \in ReservationIds |->
        IF (\E i \in 1..Len(queue) : queue[i] = r)
           /\ reservations[r].user_id = user_id /\ reservations[r].status = "ACTIVE"
        THEN [reservations[r] EXCEPT !.status = "FULFILLED"]
        ELSE reservations[r]]

fulfil(queue, user_id) ==
    LET r == first_of_user(queue, user_id)
    IN  IF r = None THEN reservations
        ELSE [reservations EXCEPT ![r].status = "FULFILLED"]

mark_out_forgotten(copy_id) == copies

\* the copy a checkout allocates is marked out
mark_out(copy_id) == [copies EXCEPT ![copy_id].status = "CHECKED_OUT"]

new_loan_short(user_id, copy_id, now) ==
    [user_id |-> user_id, copy_id |-> copy_id, checkout_at |-> now,
     due_at |-> now + LoanTicks - TicksPerDay, returned_at |-> None]

\* the Loan record checkout_first_available builds
new_loan(user_id, copy_id, now) ==
    [user_id |-> user_id, copy_id |-> copy_id, checkout_at |-> now,
     due_at |-> now + LoanTicks, returned_at |-> None]

\* the queue test of checkout_first_available: someone else is first
reserved_by_other_nowhere(queue, user_id) ==
    queue # <<>> /\ \A i \in 1..Len(queue) : reservations[queue[i]].user_id # user_id

reserved_by_other_if_lendable(queue, user_id) ==
    /\ queue # <<>>
    /\ reservations[queue[1]].user_id # user_id
    /\ \E c \in CopyIds : /\ copies[c].book_id = reservations[queue[1]].book_id
                          /\ copies[c].status = "AVAILABLE"

reserved_by_other(queue, user_id) ==
    queue # <<>> /\ reservations[queue[1]].user_id # user_id

checkout_within_limit(user_id, book_id, now) ==
    LET queue == list_active_for_book(book_id)
        avail == list_available_copy_ids(book_id)
        held == {l \in LoanIds : loans[l].user_id = user_id /\ loans[l].returned_at = None}
    IN  IF user_id \notin UserIds \/ ~can_borrow(users[user_id])
           \/ Cardinality(held) >= borrow_limit
        THEN /\ last' = Call("checkout", user_id, book_id, None, None,
                             <<"user missing or not allowed">>)
             /\ UNCHANGED <<clock, repos>>
        ELSE IF reserved_by_other(queue, user_id)
        THEN /\ last' = Call("checkout", user_id, book_id, None, None,
                             <<"book reserved by someone else first">>)
             /\ UNCHANGED <<clock, repos>>
        ELSE IF avail = <<>>
        THEN /\ last' = Call("checkout", user_id, book_id, None, None,
                             <<"no copies available">>)
             /\ UNCHANGED <<clock, repos>>
        ELSE /\ copies' = mark_out(avail[1])
             /\ loans' = Append(loans, new_loan(user_id, avail[1], now))
             /\ reservations' = fulfil(queue, user_id)
             /\ last' = Call("checkout", user_id, book_id, None, Len(loans) + 1, <<>>)
             /\ UNCHANGED <<clock, users, nbooks, fines>>

checkout_marks_before_tests(user_id, book_id, now) ==
    LET queue == list_active_for_book(book_id)
        avail == list_available_copy_ids(book_id)
        marked == IF avail = <<>> THEN copies ELSE mark_out(avail[1])
    IN  IF user_id \notin UserIds \/ ~can_borrow(users[user_id])
           \/ reserved_by_other(queue, user_id) \/ avail = <<>>
        THEN /\ copies' = marked
             /\ last' = Call("checkout", user_id, book_id, None, None, <<"denied">>)
             /\ UNCHANGED <<clock, users, nbooks, loans, reservations, fines>>
        ELSE /\ copies' = marked
             /\ loans' = Append(loans, new_loan(user_id, avail[1], now))
             /\ reservations' = fulfil(queue, user_id)
             /\ last' = Call("checkout", user_id, book_id, None, Len(loans) + 1, <<>>)
             /\ UNCHANGED <<clock, users, nbooks, fines>>

\* CirculationService.checkout_first_available
checkout_first_available(user_id, book_id, now) ==
    LET queue == list_active_for_book(book_id)
        avail == list_available_copy_ids(book_id)
    IN  IF user_id \notin UserIds \/ ~can_borrow(users[user_id])
        THEN /\ last' = Call("checkout", user_id, book_id, None, None,
                             <<"user missing or not allowed">>)
             /\ UNCHANGED <<clock, repos>>
        ELSE IF reserved_by_other(queue, user_id)
        THEN /\ last' = Call("checkout", user_id, book_id, None, None,
                             <<"book reserved by someone else first">>)
             /\ UNCHANGED <<clock, repos>>
        ELSE IF avail = <<>>
        THEN /\ last' = Call("checkout", user_id, book_id, None, None,
                             <<"no copies available">>)
             /\ UNCHANGED <<clock, repos>>
        ELSE /\ copies' = mark_out(avail[1])
             /\ loans' = Append(loans, new_loan(user_id, avail[1], now))
             /\ reservations' = fulfil(queue, user_id)
             /\ last' = Call("checkout", user_id, book_id, None, Len(loans) + 1, <<>>)
             /\ UNCHANGED <<clock, users, nbooks, fines>>

\* LibrarySystem.checkout: now is read from the clock
checkout(user_id, book_id) ==
    /\ checkout_first_available(user_id, book_id, clock)
    /\ UNCHANGED calls

overdue_days_elapsed(loan, now) ==
    IF loan.returned_at # None /\ loan.returned_at > loan.due_at
    THEN (loan.returned_at - loan.due_at) \div TicksPerDay
    ELSE IF is_overdue(loan, now)
    THEN (now - loan.due_at) \div TicksPerDay
    ELSE None

\* the day count of FineService.assess_overdue_fine (None: the on-time branch)
overdue_days(loan, now) ==
    IF loan.returned_at # None /\ loan.returned_at > loan.due_at
    THEN date(loan.returned_at) - date(loan.due_at)
    ELSE IF is_overdue(loan, now)
    THEN date(now) - date(loan.due_at)
    ELSE None

fine_amount_at_least_a_day(days) == (IF days > 1 THEN days ELSE 1) * DailyRateCents

fine_amount(days) == (IF days > 0 THEN days ELSE 0) * DailyRateCents

\* FineService.assess_overdue_fine: the fines it adds (none or one)
assess_overdue_fine(loan_id, loan, now) ==
    LET days == overdue_days(loan, now)
    IN  IF days = None THEN <<>>
        ELSE IF fine_amount(days) <= 0 THEN <<>>
        ELSE <<[user_id |-> loan.user_id, amount_cents |-> fine_amount(days),
                days |-> days, loan_id |-> loan_id,
                created_at |-> now, paid_at |-> None]>>

mark_returned_forgotten(loan, when) == loan

\* Loan.mark_returned
mark_returned(loan, when) == [loan EXCEPT !.returned_at = when]

invalid_loan_unknown_only(loan_id) == loan_id \notin LoanIds

\* the guard of return_copy: no such loan, or already returned
invalid_loan(loan_id) ==
    loan_id \notin LoanIds \/ loans[loan_id].returned_at # None

free_copy_forgotten(copy_id) == copies

\* the copy of a returned loan is freed
free_copy(copy_id) == [copies EXCEPT ![copy_id].status = "AVAILABLE"]

notify_next_fulfils(queue) ==
    IF queue = <<>> THEN reservations
    ELSE [reservations EXCEPT ![queue[1]].status = "FULFILLED"]

\* the notification of the next reservation holder is a print: the
\* reservations after it are the reservations before it
notify_next(queue) == reservations

\* CirculationService.return_copy
return_copy(loan_id, now) ==
    IF invalid_loan(loan_id)
    THEN /\ last' = Call("return", None, None, loan_id, None, <<"invalid loan">>)
         /\ UNCHANGED <<clock, repos>>
    ELSE LET loan == mark_returned(loans[loan_id], now)
             fine == assess_overdue_fine(loan_id, loan, now)
             queue == list_active_for_book(copies[loan.copy_id].book_id)
         IN  /\ loans' = [loans EXCEPT ![loan_id] = loan]
             /\ copies' = free_copy(loan.copy_id)
             /\ fines' = fines \o fine
             /\ last' = Call("return", None, None, loan_id, loan_id,
                             (IF fine # <<>> THEN <<"fine assessed">> ELSE <<>>)
                             \o (IF queue # <<>>
                                 THEN <<"notifying next in queue",
                                        reservations[queue[1]].user_id>>
                                 ELSE <<>>))
             /\ reservations' = notify_next(queue)
             /\ UNCHANGED <<clock, users, nbooks>>

\* LibrarySystem.return_loan
return_loan(loan_id) ==
    /\ return_copy(loan_id, clock)
    /\ UNCHANGED calls

\* LibrarySystem.reserve -> CirculationService.reserve_book
reserve(user_id, book_id) ==
    /\ reservations' = Append(reservations,
                              [user_id |-> user_id, book_id |-> book_id,
                               placed_at |-> clock, status |-> "ACTIVE"])
    /\ last' = Call("reserve", user_id, book_id, None, Len(reservations) + 1, <<>>)
    /\ UNCHANGED <<clock, users, nbooks, copies, loans, fines, calls>>

\* LibrarySystem.pay_all_fines -> FineService.pay_all (the cents, before / 100.0)
pay_all_fines(user_id) ==
    LET unpaid == list_unpaid_by_user(user_id)
    IN  /\ fines' = [f \in FineIds |->
                        IF f \in unpaid THEN [fines[f] EXCEPT !.paid_at = clock]
                        ELSE fines[f]]
        /\ last' = Call("pay_all", user_id, None, None, SumCents(unpaid), <<>>)
        /\ UNCHANGED <<clock, users, nbooks, copies, loans, reservations, calls>>

block_follows_total(user_id) ==
    LET blocked == total_unpaid_cents(user_id) > BlockThresholdCents
    IN  /\ users' = [users EXCEPT ![user_id].active = ~blocked]
        /\ last' = Call("block", user_id, None, None, blocked, <<>>)
        /\ UNCHANGED <<clock, nbooks, copies, loans, reservations, fines, calls>>

\* UserService.block_if_unpaid_fines
block_if_unpaid_fines(user_id) ==
    LET blocked == total_unpaid_cents(user_id) > BlockThresholdCents
    IN  /\ users' = IF blocked THEN [users EXCEPT ![user_id].active = FALSE] ELSE users
        /\ last' = Call("block", user_id, None, None, blocked, <<>>)
        /\ UNCHANGED <<clock, nbooks, copies, loans, reservations, fines, calls>>

\* the arguments a caller may pass: every id in use and one that names nothing
UserArgs == UserIds \cup {UnknownId}
BookArgs == BookIds \cup {UnknownId}
LoanArgs == LoanIds \cup {UnknownId}

\* any sequence of calls, one at a time; the repositories stay within the bounds
Next ==
    \/ \E t \in Instants : Tick(t)
    \/ Len(users) < MaxUsers /\ create_user
    \/ nbooks < MaxBooks /\ \E n \in 0..(MaxCopies - Len(copies)) : add_book(n)
    \/ Len(loans) < MaxLoans /\ \E u \in UserArgs, b \in BookArgs : checkout(u, b)
    \/ \E l \in LoanArgs : return_loan(l)
    \/ Len(reservations) < MaxReservations
       /\ \E u \in UserArgs, b \in BookArgs : reserve(u, b)
    \/ \E u \in UserArgs : pay_all_fines(u)
    \/ \E u \in UserIds : block_if_unpaid_fines(u)

Spec == Init /\ [][Next]_vars


\* LoanRepo.list_overdue
list_overdue(now) ==
    InOrder({l \in LoanIds : is_overdue(loans[l], now)}, Len(loans))

\* LibrarySystem.report_overdue -> CirculationService.list_overdue_loans
report_overdue ==
    /\ last' = Call("report_overdue", None, None, None, list_overdue(clock), <<>>)
    /\ UNCHANGED <<clock, repos, calls>>

\* the instants at which the wall clock is read under SpecFine: two instants
\* of the first day, both instants of the day a loan of the first day is due,
\* the day after, and three days after
FineInstants == {0, 1, LoanTicks, LoanTicks + 1, LoanTicks + TicksPerDay,
                 LoanTicks + 3 * TicksPerDay}

\* lending, returning and paying over the days around a due date, without
\* reservations
NextFine ==
    \/ \E t \in FineInstants : Tick(t)
    \/ Len(users) < MaxUsers /\ create_user
    \/ nbooks < MaxBooks /\ \E n \in 0..(MaxCopies - Len(copies)) : add_book(n)
    \/ Len(loans) < MaxLoans /\ \E u \in UserArgs, b \in BookArgs : checkout(u, b)
    \/ \E l \in LoanArgs : return_loan(l)
    \/ \E u \in UserArgs : pay_all_fines(u)
    \/ report_overdue

SpecFine == Init /\ [][NextFine]_vars

\* LibrarySystem.report_inventory: per book, its id, the number of its copies
\* and the number of those that are AVAILABLE
report_inventory ==
    /\ last' = Call("report_inventory", None, None, None,
                    [b \in 1..nbooks |->
                        <<b, Len(list_copies_for_book(b)),
                          Len(SelectSeq(list_copies_for_book(b),
                                        LAMBDA c : copies[c].status = "AVAILABLE"))>>],
                    <<>>)
    /\ UNCHANGED <<clock, repos, calls>>

\* the copies argument of add_book: a negative one adds no copy (range(copies))
CopyCounts == -1..(MaxCopies - Len(copies))

\* catalogue and circulation calls, with a second book and the inventory report
NextInventory ==
    \/ Len(users) < MaxUsers /\ create_user
    \/ nbooks < MaxBooks + 1 /\ \E n \in CopyCounts : add_book(n)
    \/ Len(loans) < MaxLoans /\ \E u \in UserArgs, b \in BookArgs : checkout(u, b)
    \/ \E l \in LoanArgs : return_loan(l)
    \/ report_inventory

SpecInventory == Init /\ [][NextInventory]_vars

\* the borrowers under SpecLimit
LimitUsers == 1

\* one loan more than CirculationService.borrow_limit
LimitLoans == borrow_limit + 1

\* a book with enough copies for one user to pass the configured limit
NextLimit ==
    \/ Len(users) < LimitUsers /\ create_user
    \/ nbooks < MaxBooks /\ add_book(LimitLoans)
    \/ Len(loans) < LimitLoans /\ \E u \in UserArgs, b \in BookArgs : checkout(u, b)
    \/ \E l \in LoanArgs : return_loan(l)
    \/ Len(reservations) < MaxReservations
       /\ \E u \in UserArgs, b \in BookArgs : reserve(u, b)

SpecLimit == Init /\ [][NextLimit]_vars

\* the reservations and the loans under SpecQueue
QueueReservations == 3
QueueLoans == 3

\* reservations and circulation at one instant, with a queue of up to three
NextQueue ==
    \/ Len(users) < MaxUsers /\ create_user
    \/ nbooks < MaxBooks /\ \E n \in 1..MaxCopies : add_book(n)
    \/ Len(loans) < QueueLoans /\ \E u \in UserArgs, b \in BookArgs : checkout(u, b)
    \/ \E l \in LoanArgs : return_loan(l)
    \/ Len(reservations) < QueueReservations
       /\ \E u \in UserArgs, b \in BookArgs : reserve(u, b)

SpecQueue == Init /\ [][NextQueue]_vars

\* ---------------------------------------------------- concurrent checkouts
\* checkout_first_available in two steps, as a second caller sees it when
\* nothing serializes the calls: the reads (user, queue, available copies)
\* and then the writes (copy status, loan, reservation status).

may_enter_always == TRUE

\* a call may start: always when calls are not serialized, and only when no
\* other call is between its reads and its writes when they are
may_enter == serialized => inflight = <<>>

\* checkout_first_available up to the read of the available copies
checkout_reads(user_id, book_id) ==
    LET queue == list_active_for_book(book_id)
        avail == list_available_copy_ids(book_id)
    IN  /\ may_enter
        /\ IF user_id \notin UserIds \/ ~can_borrow(users[user_id])
           THEN /\ last' = Call("checkout", user_id, book_id, None, None,
                                <<"user missing or not allowed">>)
                /\ UNCHANGED inflight
           ELSE IF reserved_by_other(queue, user_id)
           THEN /\ last' = Call("checkout", user_id, book_id, None, None,
                                <<"book reserved by someone else first">>)
                /\ UNCHANGED inflight
           ELSE IF avail = <<>>
           THEN /\ last' = Call("checkout", user_id, book_id, None, None,
                                <<"no copies available">>)
                /\ UNCHANGED inflight
           ELSE /\ inflight' = Append(inflight,
                                      [user_id |-> user_id, book_id |-> book_id,
                                       now |-> clock, queue |-> queue, avail |-> avail])
                /\ last' = Call("checkout reads", user_id, book_id, None, None, <<>>)
        /\ UNCHANGED <<clock, repos, serialized>>

\* checkout_first_available from the first iteration of its loop on: the i-th
\* call in flight writes, with the queue and the copies it read
checkout_writes(i) ==
    LET call == inflight[i]
        copy_id == call.avail[1]
    IN  /\ copies' = mark_out(copy_id)
        /\ loans' = Append(loans, new_loan(call.user_id, copy_id, call.now))
        /\ reservations' = fulfil(call.queue, call.user_id)
        /\ last' = Call("checkout", call.user_id, call.book_id, None, Len(loans) + 1, <<>>)
        /\ inflight' = SubSeq(inflight, 1, i - 1) \o SubSeq(inflight, i + 1, Len(inflight))
        /\ UNCHANGED <<clock, users, nbooks, fines, serialized>>

\* the calls run one at a time, as the facade runs them, or interleaved
InitRace ==
    /\ clock = 0
    /\ users = <<>>
    /\ nbooks = 0
    /\ copies = <<>>
    /\ loans = <<>>
    /\ reservations = <<>>
    /\ fines = <<>>
    /\ last = Call("init", None, None, None, None, <<>>)
    /\ serialized \in BOOLEAN
    /\ inflight = <<>>

NextRace ==
    \/ may_enter /\ Len(users) < MaxUsers /\ create_user
    \/ may_enter /\ nbooks < MaxBooks /\ \E n \in 0..(MaxCopies - Len(copies)) : add_book(n)
    \/ Len(loans) + Len(inflight) < MaxLoans /\ Len(inflight) < MaxInflight
       /\ \E u \in UserArgs, b \in BookArgs : checkout_reads(u, b)
    \/ \E i \in DOMAIN inflight : checkout_writes(i)
    \/ may_enter /\ \E l \in LoanArgs : return_loan(l)
    \/ may_enter /\ Len(reservations) < MaxReservations
       /\ \E u \in UserArgs, b \in BookArgs : reserve(u, b)

SpecRace == InitRace /\ [][NextRace]_vars

\* -------------------------------------------------------------- properties
\* the open loans that reference a copy of a book
open_loans_of_book(book_id) ==
    {l \in LoanIds : loans[l].returned_at = None
                     /\ copies[loans[l].copy_id].book_id = book_id}

\* the open loans that reference a copy
open_loans_of_copy(copy_id) ==
    {l \in LoanIds : loans[l].copy_id = copy_id /\ loans[l].returned_at = None}

checked_out_copies(book_id) ==
    {c \in CopyIds : copies[c].book_id = book_id /\ copies[c].status = "CHECKED_OUT"}

\* the copies of a book that are on the shelf
available_copies(book_id) ==
    {c \in CopyIds : copies[c].book_id = book_id /\ copies[c].status = "AVAILABLE"}

\* the ACTIVE reservations of a book
active_reservations(book_id) ==
    {r \in ReservationIds : reservations[r].book_id = book_id
                            /\ reservations[r].status = "ACTIVE"}

\* r was placed before q: earlier timestamp, or the same one and added first
placed_before(r, q) ==
    \/ reservations[r].placed_at < reservations[q].placed_at
    \/ reservations[r].placed_at = reservations[q].placed_at /\ r < q

\* the earliest-placed ACTIVE reservation of a book (when there is one)
earliest_active(book_id) ==
    CHOOSE r \in active_reservations(book_id) :
        \A q \in active_reservations(book_id) \ {r} : placed_before(r, q)

\* the user at the head of the book's queue of ACTIVE reservations
head_user(book_id) == reservations[earliest_active(book_id)].user_id

\* C1: in every reachable state every copy is referenced by at most one open
\* loan, and the copy is CHECKED_OUT exactly when such a loan exists.
C1_OneOpenLoanPerCopy ==
    \A c \in CopyIds :
        /\ Cardinality(open_loans_of_copy(c)) <= 1
        /\ copies[c].status = "CHECKED_OUT" <=> open_loans_of_copy(c) # {}

\* C1 witness: a copy that was lent, returned and lent again, next to a copy
\* of the same book that is on the shelf.
C1_Witness ==
    \E c, d \in CopyIds, l, m \in LoanIds :
        /\ c # d /\ copies[c].book_id = copies[d].book_id
        /\ loans[l].copy_id = c /\ loans[l].returned_at # None
        /\ loans[m].copy_id = c /\ loans[m].returned_at = None
        /\ copies[c].status = "CHECKED_OUT" /\ copies[d].status = "AVAILABLE"

\* C2: while the head of book B's ACTIVE queue belongs to user U, a checkout
\* of B by any other user returns no loan and creates none, whatever copies
\* are available and whatever later reservation the requester holds.
C2_QueueHeadBlocksOthers ==
    [][(/\ last'.op = "checkout"
        /\ active_reservations(last'.book) # {}
        /\ head_user(last'.book) # last'.user)
       => /\ last'.ret = None
          /\ UNCHANGED repos]_vars

\* C2 witness: an eligible user who holds the second ACTIVE reservation of a
\* book with an AVAILABLE copy has just been denied, the head being another's.
C2_Witness ==
    /\ last.op = "checkout" /\ last.ret = None
    /\ last.user \in UserIds /\ users[last.user].active
    /\ available_copies(last.book) # {}
    /\ Cardinality(active_reservations(last.book)) = 2
    /\ head_user(last.book) # last.user
    /\ \E r \in active_reservations(last.book) : reservations[r].user_id = last.user

\* C3: for every book the number of CHECKED_OUT copies equals the number of
\* open loans on copies of that book.
C3_CheckedOutEqualsOpenLoans ==
    \A b \in BookArgs :
        Cardinality(checked_out_copies(b)) = Cardinality(open_loans_of_book(b))

\* C3 witness: a book with one copy out and one copy back on the shelf after a
\* return.
C3_Witness ==
    \E b \in BookIds :
        /\ Cardinality(checked_out_copies(b)) = 1
        /\ available_copies(b) # {}
        /\ \E l \in LoanIds : loans[l].returned_at # None
                              /\ copies[loans[l].copy_id].book_id = b
                              /\ copies[loans[l].copy_id].status = "AVAILABLE"

\* C4: a checkout of a book none of whose copies is AVAILABLE (all out, no
\* copies, or an unknown book) returns no loan and adds no loan record.
C4_NoAvailableCopyNoLoan ==
    [][(/\ last'.op = "checkout"
        /\ available_copies(last'.book) = {})
       => /\ last'.ret = None
          /\ loans' = loans]_vars

\* C4 witness: an eligible user, not blocked by the queue, has been denied a
\* known book all of whose copies are out.
C4_Witness ==
    /\ last.op = "checkout" /\ last.ret = None
    /\ last.user \in UserIds /\ users[last.user].active
    /\ last.book \in BookIds
    /\ active_reservations(last.book) = {}
    /\ checked_out_copies(last.book) # {}
    /\ available_copies(last.book) = {}

\* C5: a successful checkout turns exactly one AVAILABLE copy of the book
\* CHECKED_OUT and appends exactly one open loan: requester, that copy,
\* checkout time now, due time now + 14 days; every other copy and loan is
\* left as it was.
C5_CheckoutEffect ==
    [][(last'.op = "checkout" /\ last'.ret # None)
       => \E c \in available_copies(last'.book) :
            /\ copies' = [copies EXCEPT ![c].status = "CHECKED_OUT"]
            /\ last'.ret = Len(loans) + 1
            /\ loans' = Append(loans,
                               [user_id |-> last'.user, copy_id |-> c,
                                checkout_at |-> clock,
                                due_at |-> clock + default_loan_days * TicksPerDay,
                                returned_at |-> None])]_vars

\* C5 witness: a second loan has just been made, at a later instant, while
\* the first loan is still open on another copy.
C5_Witness ==
    /\ last.op = "checkout" /\ last.ret = 2
    /\ loans[1].returned_at = None
    /\ loans[1].copy_id # loans[2].copy_id
    /\ loans[2].checkout_at > loans[1].checkout_at

\* the ACTIVE reservations a user holds for a book
active_of_user(user_id, book_id) ==
    {r \in active_reservations(book_id) : reservations[r].user_id = user_id}

\* C6: a successful checkout of B by U fulfils exactly the earliest of U's
\* ACTIVE reservations for B and changes no other reservation; when U holds
\* none, no reservation changes.
C6_FulfilsExactlyOne ==
    [][(last'.op = "checkout" /\ last'.ret # None)
       => LET mine == active_of_user(last'.user, last'.book)
          IN  IF mine = {} THEN reservations' = reservations
              ELSE \E r \in mine :
                     /\ \A q \in mine \ {r} : placed_before(r, q)
                     /\ reservations' = [reservations EXCEPT ![r].status = "FULFILLED"]]_vars

\* C6 witness: U, holding two ACTIVE reservations for B, has just checked B
\* out: the first is FULFILLED, the second still ACTIVE.
C6_Witness ==
    /\ last.op = "checkout" /\ last.ret # None
    /\ \E r, q \in ReservationIds :
        /\ r < q
        /\ reservations[r].user_id = last.user /\ reservations[q].user_id = last.user
        /\ reservations[r].book_id = last.book /\ reservations[q].book_id = last.book
        /\ reservations[r].status = "FULFILLED" /\ reservations[q].status = "ACTIVE"
        /\ Len(loans) = 1

\* C7: a checkout by an unknown user id, or by a user whose active flag is
\* false, returns no loan and creates none.
C7_IneligibleUserDenied ==
    [][(/\ last'.op = "checkout"
        /\ (last'.user \notin UserIds \/ ~users[last'.user].active))
       => /\ last'.ret = None
          /\ loans' = loans]_vars

\* C7 witness: a blocked user who is first in the queue of a book with an
\* AVAILABLE copy has just been denied.
C7_Witness ==
    /\ last.op = "checkout" /\ last.ret = None
    /\ last.user \in UserIds /\ ~users[last.user].active
    /\ available_copies(last.book) # {}
    /\ active_reservations(last.book) # {}
    /\ head_user(last.book) = last.user

\* C8: a successful return of an open loan sets its returned_at to now and
\* its copy to AVAILABLE, so that the copy is again among those a checkout
\* allocates from.
C8_ReturnEffect ==
    [][(last'.op = "return" /\ last'.ret # None)
       => \E l \in LoanIds, c \in CopyIds, b \in BookIds :
            /\ l = last'.loan /\ c = loans[l].copy_id /\ b = copies[c].book_id
            /\ loans[l].returned_at = None
            /\ loans'[l].returned_at = clock
            /\ copies'[c].status = "AVAILABLE"
            /\ \E i \in 1..Len(list_available_copy_ids(b)') :
                  list_available_copy_ids(b)'[i] = c]_vars

\* C8 witness: the copy freed by a return has just been allocated to a new
\* loan by a later checkout.
C8_Witness ==
    /\ last.op = "checkout" /\ last.ret = 2
    /\ loans[1].returned_at # None
    /\ loans[2].copy_id = loans[1].copy_id
    /\ loans[2].returned_at = None

\* C9: once a loan's returned_at is set, no later step changes it.
C9_ReturnedAtImmutable ==
    [][\A l \in LoanIds :
          loans[l].returned_at # None
          => /\ l \in DOMAIN loans'
             /\ loans'[l].returned_at = loans[l].returned_at]_vars

\* C9 witness: a return has been attempted again, at a later instant, on a
\* loan that was closed earlier.
C9_Witness ==
    /\ last.op = "return" /\ last.ret = None
    /\ last.loan \in LoanIds
    /\ loans[last.loan].returned_at # None
    /\ loans[last.loan].returned_at < clock

\* C10: a return of an unknown loan id or of an already returned loan returns
\* nothing and changes no user, copy, loan, reservation or fine.
C10_InvalidReturnChangesNothing ==
    [][(/\ last'.op = "return"
        /\ (last'.loan \notin LoanIds \/ loans[last'.loan].returned_at # None))
       => /\ last'.ret = None
          /\ UNCHANGED repos]_vars

\* C10 witness: a return has been repeated on a closed loan that was fined,
\* while its copy is out again on another loan.
C10_Witness ==
    /\ last.op = "return" /\ last.ret = None
    /\ last.loan \in LoanIds
    /\ loans[last.loan].returned_at # None
    /\ \E f \in FineIds : fines[f].loan_id = last.loan
    /\ \E m \in LoanIds : /\ m # last.loan
                          /\ loans[m].copy_id = loans[last.loan].copy_id
                          /\ loans[m].returned_at = None
    /\ copies[loans[last.loan].copy_id].status = "CHECKED_OUT"

\* C11: a successful return adds a fine exactly when the calendar date of the
\* return is later than the calendar date of the due time, and the fine is
\* then 50 minor units per day of that gap, charged to the borrower.
C11_FineIffLaterDate ==
    [][(last'.op = "return" /\ last'.ret # None)
       => \E l \in LoanIds :
            /\ l = last'.loan
            /\ LET gap == date(clock) - date(loans[l].due_at)
               IN  IF gap > 0
                   THEN /\ Len(fines') = Len(fines) + 1
                        /\ SubSeq(fines', 1, Len(fines)) = fines
                        /\ fines'[Len(fines')].amount_cents = DailyRateCents * gap
                        /\ fines'[Len(fines')].user_id = loans[l].user_id
                        /\ fines'[Len(fines')].paid_at = None
                   ELSE fines' = fines]_vars

\* C11 witness: a loan has just been returned three calendar days after its
\* due date and fined 150.
C11_Witness ==
    /\ last.op = "return" /\ last.ret # None
    /\ \E f \in FineIds :
        /\ fines[f].loan_id = last.loan
        /\ fines[f].amount_cents = 150
        /\ date(loans[last.loan].returned_at) - date(loans[last.loan].due_at) = 3

\* C12: every fine is a positive multiple of 50; once created its amount, user
\* and reason (day count and loan) never change, the record is never removed,
\* and paid_at only goes from unset to set, once.
C12_FineOnlyEverPaid ==
    /\ [](\A f \in FineIds : /\ fines[f].amount_cents > 0
                             /\ fines[f].amount_cents % DailyRateCents = 0)
    /\ [][\A f \in FineIds :
            /\ f \in DOMAIN fines'
            /\ fines'[f].amount_cents = fines[f].amount_cents
            /\ fines'[f].user_id = fines[f].user_id
            /\ fines'[f].days = fines[f].days
            /\ fines'[f].loan_id = fines[f].loan_id
            /\ fines'[f].created_at = fines[f].created_at
            /\ (fines[f].paid_at # None => fines'[f].paid_at = fines[f].paid_at)]_vars

\* C12 witness: the holder of a fine paid at an earlier instant has called
\* pay_all again, now paying a second fine.
C12_Witness ==
    /\ last.op = "pay_all" /\ last.ret > 0
    /\ \E f, g \in FineIds :
        /\ fines[f].user_id = last.user /\ fines[g].user_id = last.user
        /\ fines[f].paid_at # None /\ fines[f].paid_at < clock
        /\ fines[g].paid_at = clock

\* the unpaid fines of a user, and their sum
unpaid_of(user_id) ==
    {f \in FineIds : fines[f].user_id = user_id /\ fines[f].paid_at = None}

RECURSIVE sum_amounts(_)
sum_amounts(fs) ==
    IF fs = {} THEN 0
    ELSE LET f == CHOOSE x \in fs : TRUE
         IN  fines[f].amount_cents + sum_amounts(fs \ {f})

\* C13: pay_all returns the sum of the user's unpaid fines; called again for
\* the same user right after, it returns 0 and changes no fine.
C13_PayAllIdempotent ==
    [][last'.op = "pay_all"
       => /\ last'.ret = sum_amounts(unpaid_of(last'.user))
          /\ (last.op = "pay_all" /\ last.user = last'.user)
             => (last'.ret = 0 /\ fines' = fines)]_vars

\* C13 witness: pay_all has returned 0 for a user whose fine was paid at this
\* very instant, by the call before.
C13_Witness ==
    /\ last.op = "pay_all" /\ last.ret = 0
    /\ \E f \in FineIds : fines[f].user_id = last.user /\ fines[f].paid_at = clock

\* C14: pay_all(user) returns the sum of that user's unpaid fines, stamps
\* exactly those as paid, leaves every other fine and every user, copy, loan
\* and reservation unchanged, and leaves the user with nothing unpaid.
C14_PayAllFrame ==
    [][last'.op = "pay_all"
       => /\ last'.ret = sum_amounts(unpaid_of(last'.user))
          /\ DOMAIN fines' = DOMAIN fines
          /\ \A f \in FineIds :
                IF f \in unpaid_of(last'.user)
                THEN fines'[f] = [fines[f] EXCEPT !.paid_at = clock]
                ELSE fines'[f] = fines[f]
          /\ UNCHANGED <<users, nbooks, copies, loans, reservations>>
          /\ \A f \in FineIds : fines'[f].user_id = last'.user => fines'[f].paid_at # None]_vars

\* C14 witness: of two users with an unpaid fine each, one has just paid; the
\* other's fine is still unpaid.
C14_Witness ==
    /\ last.op = "pay_all" /\ last.ret > 0
    /\ \E f, g \in FineIds :
        /\ fines[f].user_id = last.user /\ fines[f].paid_at = clock
        /\ fines[g].user_id # last.user /\ fines[g].paid_at = None

\* C19: report_overdue lists exactly the loans that are open and whose due time
\* is strictly before now, each once: no returned loan, however late, and no
\* open loan whose due time is now.
C19_OverdueExactlyOpenAndPastDue ==
    [][last'.op = "report_overdue"
       => /\ {last'.ret[i] : i \in DOMAIN last'.ret}
             = {l \in LoanIds : loans[l].returned_at = None /\ clock > loans[l].due_at}
          /\ \A i, j \in DOMAIN last'.ret : last'.ret[i] = last'.ret[j] => i = j]_vars

\* C19 witness: the report lists one open loan past its due time and leaves
\* out a loan that was returned late.
C19_Witness ==
    /\ last.op = "report_overdue"
    /\ Len(last.ret) = 1
    /\ loans[last.ret[1]].returned_at = None
    /\ \E l \in LoanIds :
        /\ loans[l].returned_at # None
        /\ loans[l].returned_at > loans[l].due_at

\* C15: reserve succeeds for every user id and book id: it adds one ACTIVE
\* reservation for them, placed after every ACTIVE reservation the book already
\* had, so the queue is the old queue with the new reservation at its end; no
\* existing reservation, user, copy, loan or fine changes.
C15_ReserveAppendsToQueue ==
    [][last'.op = "reserve"
       => \E n \in DOMAIN reservations', b \in BookArgs :
            /\ n = Len(reservations) + 1
            /\ b = last'.book
            /\ Len(reservations') = n
            /\ \A r \in ReservationIds : reservations'[r] = reservations[r]
            /\ reservations'[n].user_id = last'.user
            /\ reservations'[n].book_id = b
            /\ reservations'[n].status = "ACTIVE"
            /\ last'.ret = n
            /\ \A r \in active_reservations(b) : placed_before(r, n)'
            /\ list_active_for_book(b)' = Append(list_active_for_book(b), n)
            /\ UNCHANGED <<users, nbooks, copies, loans, fines>>]_vars

\* C15 witness: a blocked user who already holds an ACTIVE reservation of the
\* book, placed at this same instant, has reserved it again.
C15_Witness ==
    /\ last.op = "reserve"
    /\ last.user \in UserIds /\ ~users[last.user].active
    /\ \E r \in active_reservations(last.book) :
        /\ r # last.ret
        /\ reservations[r].user_id = last.user
        /\ reservations[r].placed_at = reservations[last.ret].placed_at

\* C16: a successful return changes no reservation and adds no loan, so the
\* head of the book's queue is the same ACTIVE reservation, and the copy is
\* AVAILABLE after it; an AVAILABLE copy stops being AVAILABLE only in a
\* successful checkout that lends that copy.
C16_ReturnOnlyNotifies ==
    /\ [][(last'.op = "return" /\ last'.ret # None)
          => \E l \in LoanIds, b \in BookIds :
               /\ l = last'.loan
               /\ b = copies[loans[l].copy_id].book_id
               /\ \A r \in ReservationIds :
                    /\ r \in DOMAIN reservations'
                    /\ reservations'[r].status = reservations[r].status
               /\ Len(reservations') = Len(reservations)
               /\ Len(loans') = Len(loans)
               /\ active_reservations(b)' = active_reservations(b)
               /\ (active_reservations(b) # {}
                   => earliest_active(b)' = earliest_active(b))
               /\ copies'[loans[l].copy_id].status = "AVAILABLE"]_vars
    /\ [][\A c \in CopyIds :
            (copies[c].status = "AVAILABLE" /\ copies'[c].status # "AVAILABLE")
            => /\ last'.op = "checkout"
               /\ last'.ret # None
               /\ loans'[last'.ret].copy_id = c]_vars

\* C16 witness: a copy has been returned while another user's ACTIVE
\* reservation heads the book's queue; the reservation is still ACTIVE and the
\* copy is AVAILABLE, with no open loan.
C16_Witness ==
    /\ last.op = "return" /\ last.ret # None
    /\ LET c == loans[last.loan].copy_id
           b == copies[c].book_id
       IN  /\ active_reservations(b) # {}
           /\ head_user(b) # loans[last.loan].user_id
           /\ copies[c].status = "AVAILABLE"
           /\ open_loans_of_copy(c) = {}

\* the book has copies and every one of them is CHECKED_OUT
all_copies_out(book_id) ==
    /\ \E c \in CopyIds : copies[c].book_id = book_id
    /\ \A c \in CopyIds : copies[c].book_id = book_id => copies[c].status = "CHECKED_OUT"

\* the requester exists and is active
eligible(user_id) == user_id \in UserIds /\ users[user_id].active

\* C17 as stated: a checkout by an eligible user of a book whose copies are all
\* CHECKED_OUT is denied with "no copies available", whatever the queue.
C17_AlwaysNoCopiesDenial ==
    [][\A u \in UserIds, b \in BookIds :
         (last'.op = "checkout" /\ last'.user = u /\ last'.book = b
          /\ eligible(u) /\ all_copies_out(b))
         => (last'.ret = None /\ last'.msg = <<"no copies available">>)]_vars

\* C17 amended: a checkout by an eligible user of a book whose copies are all
\* CHECKED_OUT is denied and changes nothing; the denial is "no copies
\* available" when the book's queue is empty or headed by the requester, and
\* "book reserved by someone else first" when it is headed by another user.
C17_DenialFollowsQueue ==
    [][\A u \in UserIds, b \in BookIds :
         (last'.op = "checkout" /\ last'.user = u /\ last'.book = b
          /\ eligible(u) /\ all_copies_out(b))
         => /\ last'.ret = None
            /\ UNCHANGED repos
            /\ last'.msg = IF active_reservations(b) = {} \/ head_user(b) = u
                           THEN <<"no copies available">>
                           ELSE <<"book reserved by someone else first">>]_vars

\* C17 witness: the user at the head of the queue of a book whose copies are
\* all CHECKED_OUT has been denied with "no copies available".
C17_Witness ==
    /\ last.op = "checkout" /\ last.ret = None
    /\ last.msg = <<"no copies available">>
    /\ last.book \in BookIds /\ all_copies_out(last.book)
    /\ active_reservations(last.book) # {}
    /\ head_user(last.book) = last.user

\* C20: a reservation stops being ACTIVE only by becoming FULFILLED in a
\* successful checkout of its book by its user, while it is the earliest-placed
\* ACTIVE reservation of that book; so no reservation is ever FULFILLED while a
\* reservation of the same book placed before it is still ACTIVE.
C20_FulfilledOnlyAtHead ==
    /\ [][\A r \in ReservationIds :
            (reservations[r].status = "ACTIVE" /\ reservations'[r].status # "ACTIVE")
            => /\ reservations'[r].status = "FULFILLED"
               /\ last'.op = "checkout"
               /\ last'.ret # None
               /\ last'.user = reservations[r].user_id
               /\ last'.book = reservations[r].book_id
               /\ r = earliest_active(reservations[r].book_id)]_vars
    /\ [](\A r, q \in ReservationIds :
            (/\ reservations[r].status = "FULFILLED"
             /\ reservations[q].book_id = reservations[r].book_id
             /\ placed_before(q, r))
            => reservations[q].status # "ACTIVE")

\* C20 witness: a checkout has just fulfilled the reservation at the head of a
\* queue in which another user's reservation, placed later, is still ACTIVE.
C20_Witness ==
    /\ last.op = "checkout" /\ last.ret # None
    /\ \E r, q \in ReservationIds :
        /\ reservations[r].status = "FULFILLED"
        /\ reservations[r].user_id = last.user
        /\ reservations[r].book_id = last.book
        /\ reservations[q].status = "ACTIVE"
        /\ reservations[q].book_id = last.book
        /\ reservations[q].user_id # last.user
        /\ placed_before(r, q)

\* C18: when the calls are serialized no copy ever has two open loans; when
\* they are not, two checkouts that both read the last AVAILABLE copy before
\* either writes both succeed and leave two open loans on it (the witness).
C18_SerializedNoDoubleLoan ==
    serialized => \A c \in CopyIds : Cardinality(open_loans_of_copy(c)) <= 1

\* C18 witness: without serialization, the second of two checkouts has just
\* succeeded on the only copy of the book, which now has two open loans.
C18_Witness ==
    /\ ~serialized
    /\ last.op = "checkout" /\ last.ret # None
    /\ Cardinality({c \in CopyIds : copies[c].book_id = last.book}) = 1
    /\ Cardinality(open_loans_of_copy(loans[last.ret].copy_id)) = 2

\* C24: a denied checkout, whatever the reason (ineligible user, queue headed
\* by another user, no AVAILABLE copy), leaves every user, copy, loan,
\* reservation and fine as it was.
C24_DeniedCheckoutChangesNothing ==
    [][(last'.op = "checkout" /\ last'.ret = None)
       => /\ copies' = copies
          /\ loans' = loans
          /\ reservations' = reservations
          /\ fines' = fines
          /\ users' = users
          /\ nbooks' = nbooks]_vars

\* C24 witness: a checkout has been denied because another user heads the
\* queue, while the book has an AVAILABLE copy and an open loan.
C24_Witness ==
    /\ last.op = "checkout" /\ last.ret = None
    /\ last.msg = <<"book reserved by someone else first">>
    /\ available_copies(last.book) # {}
    /\ open_loans_of_book(last.book) # {}

\* the fines assessed for a loan
fines_of_loan(loan_id) == {f \in FineIds : fines[f].loan_id = loan_id}

\* C26: no loan ever has more than one fine: a fine appears only in a
\* successful return, for the loan returned, which had none before; checkout,
\* reserve, pay_all and denied returns add none.
C26_OneFinePerLoan ==
    /\ [](\A l \in LoanIds : Cardinality(fines_of_loan(l)) <= 1)
    /\ [](\A f \in FineIds : fines[f].loan_id \in LoanIds)
    /\ [][Len(fines') # Len(fines)
          => /\ Len(fines') = Len(fines) + 1
             /\ last'.op = "return"
             /\ last'.ret # None
             /\ fines'[Len(fines')].loan_id = last'.loan
             /\ \E l \in LoanIds : l = last'.loan /\ loans[l].returned_at = None
                                   /\ fines_of_loan(l) = {}]_vars

\* C26 witness: a second return of a loan that was returned late and fined has
\* been denied; the loan still has its one fine.
C26_Witness ==
    /\ last.op = "return" /\ last.ret = None
    /\ last.loan \in LoanIds
    /\ Cardinality(fines_of_loan(last.loan)) = 1

\* C27: a user's active flag goes from true to false only in
\* block_if_unpaid_fines for that user, with an unpaid total above 1000, and
\* never goes back, whatever is paid; every checkout by a blocked user is
\* denied.
C27_BlockedForGood ==
    /\ [][\A u \in UserIds :
            /\ u \in DOMAIN users'
            /\ ~users[u].active => ~users'[u].active
            /\ (users[u].active /\ ~users'[u].active)
               => /\ last'.op = "block"
                  /\ last'.user = u
                  /\ sum_amounts(unpaid_of(u)) > BlockThresholdCents]_vars
    /\ [][\A u \in UserIds :
            (last'.op = "checkout" /\ last'.user = u /\ ~users[u].active)
            => last'.ret = None]_vars

\* C27 witness: a blocked user who has since paid every fine has been denied
\* a book with an AVAILABLE copy and an empty queue.
C27_Witness ==
    /\ last.op = "checkout" /\ last.ret = None
    /\ last.user \in UserIds /\ ~users[last.user].active
    /\ \E f \in FineIds : fines[f].user_id = last.user
    /\ unpaid_of(last.user) = {}
    /\ available_copies(last.book) # {}
    /\ active_reservations(last.book) = {}

\* the earliest ACTIVE reservation of the book belongs to a user who cannot
\* borrow: an id that names no user, or a user whose active flag is false
held_by_ineligible(book_id) ==
    /\ active_reservations(book_id) # {}
    /\ ~eligible(head_user(book_id))

\* C25: once the earliest ACTIVE reservation of a book belongs to a user who
\* cannot borrow, it stays so in every later state and no checkout of the book
\* succeeds, by anyone.
C25_IneligibleHeadBlocksBook ==
    [][\A b \in BookArgs :
         held_by_ineligible(b)
         => /\ held_by_ineligible(b)'
            /\ earliest_active(b)' = earliest_active(b)
            /\ ~(last'.op = "checkout" /\ last'.book = b /\ last'.ret # None)]_vars

\* C25 witness: a blocked user heads the queue of a book with an AVAILABLE
\* copy, and that user's own checkout of it has been denied.
C25_Witness ==
    /\ last.op = "checkout" /\ last.ret = None
    /\ last.book \in BookIds
    /\ held_by_ineligible(last.book)
    /\ last.user \in UserIds
    /\ head_user(last.book) = last.user
    /\ available_copies(last.book) # {}

\* the copies of a book
copies_of(book_id) == {c \in CopyIds : copies[c].book_id = book_id}

\* C28: add_book with count n adds a book with exactly n copies (none for a
\* negative n), all AVAILABLE, and changes no other copy; the copies of a book
\* never change afterwards; every copy is AVAILABLE or CHECKED_OUT; and
\* report_inventory gives, for every book, its number of copies and, as the
\* available count, that number minus the open loans on the book.
C28_InventoryCounts ==
    /\ [][\A n \in -1..MaxCopies :
            add_book(n)
            => \E b \in BookIds' :
                 /\ b = nbooks + 1
                 /\ last'.ret = b
                 /\ (n >= 0 => Cardinality(copies_of(b)') = n)
                 /\ (n < 0 => copies_of(b)' = {})
                 /\ \A c \in copies_of(b)' : copies'[c].status = "AVAILABLE"
                 /\ Len(copies') = Len(copies) + Cardinality(copies_of(b)')
                 /\ \A c \in CopyIds : copies'[c] = copies[c]]_vars
    /\ [][\A b \in BookIds : b \in BookIds' /\ copies_of(b)' = copies_of(b)]_vars
    /\ [](\A c \in CopyIds : copies[c].status \in {"AVAILABLE", "CHECKED_OUT"})
    /\ [][last'.op = "report_inventory"
          => /\ Len(last'.ret) = nbooks
             /\ \A b \in BookIds :
                  last'.ret[b] = <<b, Cardinality(copies_of(b)),
                                   Cardinality(copies_of(b))
                                   - Cardinality(open_loans_of_book(b))>>]_vars

\* C28 witness: the report covers two books; one has two copies of which one
\* is lent, after an earlier loan has been returned.
C28_Witness ==
    /\ last.op = "report_inventory"
    /\ Len(last.ret) = 2
    /\ \E b \in BookIds : last.ret[b][2] = 2 /\ last.ret[b][3] = 1
    /\ \E l \in LoanIds : loans[l].returned_at # None

\* C22: a return at or before the due time adds no fine; a return after the
\* due time on the due date's calendar day adds none either; a return on the
\* next calendar day adds a fine of 50, however little time has passed.
C22_FineCountsCalendarDays ==
    [][(last'.op = "return" /\ last'.ret # None)
       => \E l \in LoanIds :
            /\ l = last'.loan
            /\ LET due == loans[l].due_at
               IN  /\ clock <= due => fines' = fines
                   /\ (clock > due /\ date(clock) = date(due)) => fines' = fines
                   /\ date(clock) = date(due) + 1
                      => /\ Len(fines') = Len(fines) + 1
                         /\ fines'[Len(fines')].loan_id = l
                         /\ fines'[Len(fines')].amount_cents = DailyRateCents
                         /\ fines'[Len(fines')].days = 1]_vars

\* C22 witness: one loan was returned after its due time on the same calendar
\* day and has no fine; another has just been returned less than a day late,
\* on the next calendar day, and has a fine of 50.
C22_Witness ==
    /\ last.op = "return" /\ last.ret # None
    /\ loans[last.loan].returned_at - loans[last.loan].due_at < TicksPerDay
    /\ \E f \in FineIds : fines[f].loan_id = last.loan /\ fines[f].amount_cents = DailyRateCents
    /\ \E l \in LoanIds :
        /\ loans[l].returned_at # None
        /\ loans[l].returned_at > loans[l].due_at
        /\ date(loans[l].returned_at) = date(loans[l].due_at)
        /\ fines_of_loan(l) = {}

\* the open loans a user holds
open_loans_of_user(user_id) ==
    {l \in LoanIds : loans[l].user_id = user_id /\ loans[l].returned_at = None}

\* C23: no borrow limit is enforced: an eligible user who holds borrow_limit or
\* more open loans still gets a loan whenever the book has an AVAILABLE copy
\* and its queue is empty or headed by that user.
C23_NoBorrowLimit ==
    [][\A u \in UserIds, b \in BookIds :
         (/\ last'.op = "checkout" /\ last'.user = u /\ last'.book = b
          /\ eligible(u)
          /\ Cardinality(open_loans_of_user(u)) >= borrow_limit
          /\ available_copies(b) # {}
          /\ (active_reservations(b) = {} \/ head_user(b) = u))
         => /\ last'.ret # None
            /\ Len(loans') = Len(loans) + 1
            /\ loans'[Len(loans')].user_id = u
            /\ loans'[Len(loans')].returned_at = None]_vars

\* C23 witness: a user holds one open loan more than the configured limit,
\* the last of them just lent.
C23_Witness ==
    /\ last.op = "checkout" /\ last.ret # None
    /\ Cardinality(open_loans_of_user(last.user)) = borrow_limit + 1

\* the ACTIVE reservations of the book that other users hold ahead of every
\* ACTIVE reservation of user v
ahead_of(v, book_id) ==
    {r \in active_reservations(book_id) :
        /\ reservations[r].user_id # v
        /\ \A q \in active_reservations(book_id) :
             reservations[q].user_id = v => placed_before(r, q)}

\* C21: while k > 0 ACTIVE reservations of other users precede a user's own in
\* a book's queue, that user's checkout of the book is denied; a step takes at
\* most one of the k away, and only as a successful checkout of the book by
\* the user at the head of the queue. So a user behind k reservations of U
\* waits for k successful checkouts by U.
C21_OneSlotPerCheckout ==
    [][\A b \in BookArgs :
         active_reservations(b) # {}
         => \A v \in UserArgs :
              LET k == Cardinality(ahead_of(v, b))
                  kAfter == Cardinality(ahead_of(v, b)')
              IN  k > 0
                  => /\ (last'.op = "checkout" /\ last'.user = v /\ last'.book = b)
                        => last'.ret = None
                     /\ kAfter >= k - 1
                     /\ kAfter < k
                        => /\ last'.op = "checkout"
                           /\ last'.ret # None
                           /\ last'.book = b
                           /\ last'.user = head_user(b)
                           /\ last'.user # v]_vars

\* C21 witness: of two reservations of one user placed before another user's,
\* one has been fulfilled by a checkout and one is still ACTIVE; the other
\* user's checkout has been denied although a copy is AVAILABLE.
C21_Witness ==
    /\ last.op = "checkout" /\ last.ret = None
    /\ last.user \in UserIds /\ users[last.user].active
    /\ available_copies(last.book) # {}
    /\ \E r1, r2, q \in ReservationIds :
        /\ r1 # r2
        /\ reservations[r1].user_id = reservations[r2].user_id
        /\ reservations[r1].user_id # last.user
        /\ reservations[q].user_id = last.user
        /\ reservations[r1].book_id = last.book
        /\ reservations[r2].book_id = last.book
        /\ reservations[q].book_id = last.book
        /\ placed_before(r1, q) /\ placed_before(r2, q)
        /\ reservations[r1].status = "FULFILLED"
        /\ reservations[r2].status = "ACTIVE"
        /\ reservations[q].status = "ACTIVE"
====
